---- MODULE Spec2Model ----
(***************************************************************************)
(* Model of the Keyence file manager (src/kfm.py): the transactional move  *)
(* moveFiles, its inverse revMoveFiles and the helpers they call, run      *)
(* against a small directory tree.                                         *)
(*                                                                         *)
(* A file or directory name is a record [toks, ext]: the name split at     *)
(* its underscores, and its extension.  "img_XY01_CH1.tif" is              *)
(* [toks |-> <<"img","XY01","CH1">>, ext |-> ".tif"]; the marker "_A01" is *)
(* [toks |-> <<"","A01">>, ext |-> ""].  Every regular expression of the   *)
(* program keys on underscore-delimited fields, and is modelled on the     *)
(* token sequence.  A path is the sequence of names below the target       *)
(* directory (the argument `path` of moveFiles and revMoveFiles).          *)
(***************************************************************************)
EXTENDS Integers, Sequences, FiniteSets, TLC

VARIABLES
    fs,              \* the tree below `path`: path |-> "dir" or a file's content id
    fsKind,          \* the filesystem: decides st_size of a directory
    scanRev,         \* the filesystem's directory enumeration order (one of two)
    now,             \* the wall clock, in seconds
    recData,         \* content of record.json (the json document), NoRecord if absent
    pc,              \* position of the running call, "idle" between calls
    op,              \* the running (or last) call: "move", "rev", "none"
    result,          \* outcome of the last finished call
    prev,            \* the call before the running (or last) one: "move_ok", "rev_ok", "other"
    snap,            \* the tree when the running (or last) moveFiles started
    groupby,         \* moveFiles argument
    wellMap,         \* moveFiles argument
    img_type,        \* moveFiles local
    unmoved_list,    \* moveFiles local
    record,          \* moveFiles local
    new_dirs,        \* moveFiles local
    XYtoWell,        \* moveFiles local (mapXYtoWell result)
    XYtoWell_unique, \* moveFiles local (mapXYtoWell result)
    todo,            \* moveFiles / revMoveFiles local: what the running loop has left
    mutated,         \* history: the running (or last) call has changed the tree
    tree0,           \* history: the tree before the first call
    hadRecord,       \* history: record.json was present when the call started
    goodArgs,        \* history: the moveFiles call got a grouping valid for every
                     \*   image type and a condition for every well
    collides,        \* history: a destination of the call's plan existed at its start
    badArgs,         \* history: the moveFiles call got a grouping that mixes none or
                     \*   natural with another option, or holds an unknown option
    halfMoved,       \* history: the call is a revMoveFiles that follows a moveFiles
                     \*   which wrote its record and then failed with moves done
    fn_in,           \* a helper run on its own: the input it has left
    fn_out,          \* a helper run on its own: its result so far
    fn_seen          \* a helper run on its own: the input it has consumed

vars == <<fs, fsKind, scanRev, now, recData, pc, op, result, prev, snap, groupby,
          wellMap, img_type, unmoved_list, record, new_dirs, XYtoWell,
          XYtoWell_unique, todo, mutated, tree0, hadRecord, goodArgs, collides,
          badArgs, halfMoved, fn_in, fn_out, fn_seen>>

\* the variables of a helper run on its own
fnVars == <<fn_in, fn_out, fn_seen>>

----------------------------------------------------------------------------
(* Bounds *)

MaxTime == 2

----------------------------------------------------------------------------
(* Names and paths *)

N(toks, ext) == [toks |-> toks, ext |-> ext]

RECURSIVE Join(_)
Join(toks) ==
    IF Len(toks) = 0 THEN ""
    ELSE IF Len(toks) = 1 THEN toks[1]
    ELSE toks[1] \o "_" \o Join(Tail(toks))

NameStr(n) == Join(n.toks) \o n.ext

RECURSIVE PathStr(_)
PathStr(p) ==
    IF Len(p) = 0 THEN "."
    ELSE IF Len(p) = 1 THEN NameStr(p[1])
    ELSE NameStr(p[1]) \o "/" \o PathStr(Tail(p))

Parent(p) == SubSeq(p, 1, Len(p) - 1)
Last(p) == p[Len(p)]
IsPrefix(a, b) == Len(a) <= Len(b) /\ SubSeq(b, 1, Len(a)) = a

Exists(f, p) == p = <<>> \/ p \in DOMAIN f
IsDir(f, p) == p = <<>> \/ (p \in DOMAIN f /\ f[p] = "dir")
IsFile(f, p) == p \in DOMAIN f /\ f[p] # "dir"
Children(f, d) == {p \in DOMAIN f : Len(p) = Len(d) + 1 /\ IsPrefix(d, p)}
Descendants(f, d) == {p \in DOMAIN f : Len(p) > Len(d) /\ IsPrefix(d, p)}

----------------------------------------------------------------------------
(* Filesystem primitives (what pathlib does on the tree) *)

\* Path.mkdir(): the error it raises, "" when it succeeds
MkdirErr(f, d) ==
    IF Exists(f, d) THEN "FileExistsError"
    ELSE IF ~Exists(f, Parent(d)) THEN "FileNotFoundError"
    ELSE IF ~IsDir(f, Parent(d)) THEN "NotADirectoryError"
    ELSE ""

Mkdir(f, d) == f @@ (d :> "dir")

\* Path.replace(dest) is rename(2): the error it raises, "" when it succeeds
ReplaceErr(f, src, dest) ==
    IF ~Exists(f, src) THEN "FileNotFoundError"
    ELSE IF ~Exists(f, Parent(dest)) THEN "FileNotFoundError"
    ELSE IF ~IsDir(f, Parent(dest)) THEN "NotADirectoryError"
    ELSE IF IsPrefix(src, dest) /\ src # dest THEN "OSError"
    ELSE IF Exists(f, dest) /\ IsDir(f, src) /\ ~IsDir(f, dest) THEN "NotADirectoryError"
    ELSE IF Exists(f, dest) /\ ~IsDir(f, src) /\ IsDir(f, dest) THEN "IsADirectoryError"
    ELSE IF Exists(f, dest) /\ IsDir(f, dest) /\ Children(f, dest) # {} THEN "OSError"
    ELSE ""

\* a rename that leaves the source where it was
ReplaceCopy(f, src, dest) ==
    LET moved == {p \in DOMAIN f : IsPrefix(src, p)}
        to(p) == dest \o SubSeq(p, Len(src) + 1, Len(p))
    IN  [q \in DOMAIN f \cup {to(p) : p \in moved} |->
            IF q \in DOMAIN f THEN f[q]
            ELSE f[CHOOSE p \in moved : to(p) = q]]

\* the tree after a successful rename: src and all below it now at dest;
\* whatever was at dest is replaced
Replace(f, src, dest) ==
    LET moved == {p \in DOMAIN f : IsPrefix(src, p)}
        gone  == {p \in DOMAIN f : IsPrefix(dest, p)}
        to(p) == dest \o SubSeq(p, Len(src) + 1, Len(p))
        keep  == (DOMAIN f \ moved) \ gone
    IN  IF src = dest THEN f
        ELSE [q \in keep \cup {to(p) : p \in moved} |->
                IF q \in keep THEN f[q]
                ELSE f[CHOOSE p \in moved : to(p) = q]]

Remove(f, p) == [q \in DOMAIN f \ {p} |-> f[q]]

\* Path.rmdir()
RmdirErr(f, d) ==
    IF ~Exists(f, d) THEN "FileNotFoundError"
    ELSE IF ~IsDir(f, d) THEN "NotADirectoryError"
    ELSE IF Children(f, d) # {} THEN "OSError"
    ELSE ""

\* Path.unlink()
UnlinkErr(f, p) ==
    IF ~Exists(f, p) THEN "FileNotFoundError"
    ELSE IF IsDir(f, p) THEN "PermissionError"
    ELSE ""

\* Path.stat().st_size of a directory.  POSIX leaves it to the filesystem:
\* APFS reports 32 bytes per entry with "." and ".." counted (an empty
\* directory is 64), ext4 reports the allocated block (4096).
StSize(f, kind, d) ==
    IF kind = "apfs" THEN 32 * (2 + Cardinality(Children(f, d)))
    ELSE 4096

\* The order in which the filesystem enumerates a set of entries: not
\* specified; the model takes one fixed order or its reverse.
RECURSIVE Enum(_)
Enum(S) ==
    IF S = {} THEN <<>>
    ELSE LET x == CHOOSE y \in S : TRUE IN <<x>> \o Enum(S \ {x})

Reverse(s) == [i \in 1..Len(s) |-> s[Len(s) + 1 - i]]

Scan(S, rev) == IF rev THEN Reverse(Enum(S)) ELSE Enum(S)

\* path.glob('*')
GlobAll(f) == Children(f, <<>>)
\* path.rglob('*.tif')
RglobTif(f) == {p \in DOMAIN f : Last(p).ext = ".tif"}


----------------------------------------------------------------------------
(* Regular expressions, on token sequences *)

Digits1 == {"1", "2", "3"}
XYNums == {"0" \o ToString(i) : i \in 1..9}
StitchNums == {"00001", "00045"}

IsTTok(t) == t \in {"T" \o d : d \in Digits1}        \* T\d+
IsZTok(t) == t \in {"Z" \o d : d \in Digits1}        \* Z\d+
Is5Digit(t) == t \in StitchNums                      \* \d{5}
IsXYTok(t) == t \in {"XY" \o d : d \in XYNums}       \* XY\d+
XYNumOf(t) == CHOOSE d \in XYNums : "XY" \o d = t

\* re.search(r'_T(\d+)_', name) != None, and the like: a field strictly
\* inside the name, an underscore on either side
InnerToks(n) == {n.toks[i] : i \in 2..(Len(n.toks) - 1)}

\* img_type as computed from one file name
ProbeImgType(n) ==
    [isZstack    |-> \E t \in InnerToks(n) : IsZTok(t),
     isTimelapse |-> \E t \in InnerToks(n) : IsTTok(t),
     isStitch    |-> \E t \in InnerToks(n) : Is5Digit(t)]

\* the named groups of the pattern matchImgType builds for an image type
PatternGroups(t) ==
    {"prefix", "XY", "CH"}
      \cup (IF t.isTimelapse THEN {"T"} ELSE {})
      \cup (IF t.isStitch THEN {"stitch"} ELSE {})
      \cup (IF t.isZstack THEN {"Z"} ELSE {})

NoMatch == [none |-> TRUE]

\* whether the pattern of image type t matches name n with its XY field at token i
MatchesAt(t, n, i) ==
    LET k  == Len(n.toks)
        p  == IF t.isTimelapse THEN i - 2 ELSE i - 1      \* last prefix token
        s  == i + 1                                       \* stitch token
        z  == IF t.isStitch THEN s + 1 ELSE s             \* Z token
        c  == IF t.isZstack THEN z + 1 ELSE z             \* first CH token
    IN  /\ i \in 1..k /\ IsXYTok(n.toks[i])
        /\ p >= 1 /\ Join(SubSeq(n.toks, 1, p)) # ""
        /\ t.isTimelapse => IsTTok(n.toks[i - 1])
        /\ t.isStitch => (s <= k /\ Is5Digit(n.toks[s]))
        /\ t.isZstack => (z <= k /\ IsZTok(n.toks[z]))
        /\ c <= k
        /\ n.ext = ".tif"

\* re.search(pattern, name): the groups as token sequences, NoMatch for None.
\* The prefix \w+ is greedy: the rightmost XY field that fits is taken.
Match(t, n) ==
    LET fits == {i \in 1..Len(n.toks) : MatchesAt(t, n, i)}
    IN  IF fits = {} THEN NoMatch
        ELSE LET i == CHOOSE j \in fits : \A m \in fits : m <= j
                 k == Len(n.toks)
                 p == IF t.isTimelapse THEN i - 2 ELSE i - 1
                 s == i + 1
                 z == IF t.isStitch THEN s + 1 ELSE s
                 c == IF t.isZstack THEN z + 1 ELSE z
             IN  [g \in PatternGroups(t) |->
                    CASE g = "prefix" -> SubSeq(n.toks, 1, p)
                      [] g = "T"      -> <<n.toks[i - 1]>>
                      [] g = "XY"     -> <<XYNumOf(n.toks[i])>>
                      [] g = "stitch" -> <<n.toks[s]>>
                      [] g = "Z"      -> <<n.toks[z]>>
                      [] g = "CH"     -> SubSeq(n.toks, c, k)]

\* s + <string of toks>, as a token sequence
Pre(s, toks) == <<s \o toks[1]>> \o Tail(toks)

\* re.sub(r'(XY\d+)', repl, name): every XY field replaced by the tokens repl
RECURSIVE SubXY(_, _)
SubXY(toks, repl) ==
    IF Len(toks) = 0 THEN <<>>
    ELSE (IF IsXYTok(toks[1]) THEN repl ELSE <<toks[1]>>) \o SubXY(Tail(toks), repl)


----------------------------------------------------------------------------
(* Dictionaries *)

EmptyDict == <<>>
Put(d, k, v) == [x \in DOMAIN d \cup {k} |-> IF x = k THEN v ELSE d[x]]

----------------------------------------------------------------------------
(* matchImgType, mapXYtoWell, getGroupbyPath, rmkdir *)

\* matchImgType(path), the image type it returns when its scan yields file p
\* first (the pattern is PatternGroups and Match)
matchImgType(p) == ProbeImgType(Last(p))

\* path.glob('*XY*/_*')
ContainsXY(n) == \E i \in 1..Len(n.toks) : IsXYTok(n.toks[i])
StartsWithUnderscore(n) == Len(n.toks) >= 2 /\ n.toks[1] = ""
GlobMarkers(f) ==
    {p \in DOMAIN f : Len(p) = 2 /\ ContainsXY(p[1]) /\ StartsWithUnderscore(p[2])}

\* an iteration that leaves the first position of a repeated well as it was
mapStepNoRelabel(st, f) ==
    LET well == NameStr(N(Tail(Last(f).toks), Last(f).ext))
        XY   == NameStr(Last(Parent(f)))
        isDup == \E i \in 1..Len(st.well_list) : st.well_list[i] = well
        n == IF well \in DOMAIN st.duplicates THEN st.duplicates[well] + 1 ELSE 2
        st1 ==
          IF isDup THEN
            [st EXCEPT !.duplicates = Put(@, well, n),
                       !.XYtoWell_unique = Put(@, XY, well \o "(" \o ToString(n) \o ")")]
          ELSE
            [st EXCEPT
               !.XYtoWell_unique = Put(@, XY, well),
               !.welltoXY_unique = Put(@, well, XY),
               !.well_list = Append(@, well)]
    IN  [st1 EXCEPT !.XYtoWell = Put(@, XY, well)]
\* an iteration that labels every repeat of a well as its second position
mapStepNoCount(st, f) ==
    LET well == NameStr(N(Tail(Last(f).toks), Last(f).ext))
        XY   == NameStr(Last(Parent(f)))
        isDup == \E i \in 1..Len(st.well_list) : st.well_list[i] = well
        st1 ==
          IF isDup THEN
            [st EXCEPT
               !.XYtoWell_unique =
                   Put(Put(@, st.welltoXY_unique[well], well \o "(1)"),
                       XY, well \o "(2)"),
               !.duplicates = Put(@, well, 2)]
          ELSE
            [st EXCEPT
               !.XYtoWell_unique = Put(@, XY, well),
               !.welltoXY_unique = Put(@, well, XY),
               !.well_list = Append(@, well)]
    IN  [st1 EXCEPT !.XYtoWell = Put(@, XY, well)]
\* one iteration of the loop of mapXYtoWell, on marker f
mapStep(st, f) ==
    LET well == NameStr(N(Tail(Last(f).toks), Last(f).ext))
        XY   == NameStr(Last(Parent(f)))
        isDup == \E i \in 1..Len(st.well_list) : st.well_list[i] = well
        st1 ==
          IF isDup THEN
            IF well \notin DOMAIN st.duplicates THEN
              [st EXCEPT
                 !.XYtoWell_unique =
                     Put(Put(@, st.welltoXY_unique[well], well \o "(1)"),
                         XY, well \o "(2)"),
                 !.duplicates = Put(@, well, 2)]
            ELSE
              [st EXCEPT
                 !.duplicates = Put(@, well, st.duplicates[well] + 1),
                 !.XYtoWell_unique =
                     Put(@, XY, well \o "(" \o ToString(st.duplicates[well] + 1) \o ")")]
          ELSE
            [st EXCEPT
               !.XYtoWell_unique = Put(@, XY, well),
               !.welltoXY_unique = Put(@, well, XY),
               !.well_list = Append(@, well)]
    IN  [st1 EXCEPT !.XYtoWell = Put(@, XY, well)]

\* lines 78-82: the dictionaries and lists before the loop
mapStart ==
    [XYtoWell |-> EmptyDict, welltoXY_unique |-> EmptyDict,
     XYtoWell_unique |-> EmptyDict, well_list |-> <<>>, duplicates |-> EmptyDict]

RECURSIVE mapLoop(_, _)
mapLoop(st, markers) ==
    IF Len(markers) = 0 THEN st
    ELSE mapLoop(mapStep(st, Head(markers)), Tail(markers))

\* mapXYtoWell(path): the record holds both returned dictionaries
mapXYtoWell(f, rev) == mapLoop(mapStart, Scan(GlobMarkers(f), rev))

\* one segment of the loop of getGroupbyPath
GroupSegment(group_name, well_info, uniq_well_ID, match) ==
    IF group_name = "cond" THEN N(<<well_info>>, "")
    ELSE IF group_name = "XY" THEN N(<<uniq_well_ID, well_info>>, "")
    ELSE N(Pre(group_name, match[group_name]), "")

RECURSIVE GroupLoop(_, _, _, _, _)
GroupLoop(dest, gb, well_info, uniq_well_ID, match) ==
    IF Len(gb) = 0 THEN dest
    ELSE GroupLoop(Append(dest, GroupSegment(Head(gb), well_info, uniq_well_ID, match)),
                   Tail(gb), well_info, uniq_well_ID, match)

\* match.group(name) raises IndexError for a name the pattern has no group for
GroupbyPathErr(gb, match) ==
    IF gb[1] \in {"none", "natural"} THEN ""
    ELSE IF \E i \in 1..Len(gb) :
               gb[i] \notin {"cond", "XY"} /\ gb[i] \notin DOMAIN match
         THEN "IndexError"
    ELSE ""

\* a getGroupbyPath whose natural grouping is the loop over cond and XY
getGroupbyPathFlat(gb, t, well_info, uniq_well_ID, match) ==
    IF gb[1] = "none" THEN <<>>
    ELSE IF gb[1] = "natural"
         THEN GroupLoop(<<>>, <<"cond", "XY">>, well_info, uniq_well_ID, match)
    ELSE GroupLoop(<<>>, gb, well_info, uniq_well_ID, match)

\* getGroupbyPath(path, groupby, img_type, well_info, uniq_well_ID, match),
\* path being <<>>
getGroupbyPath(gb, t, well_info, uniq_well_ID, match) ==
    IF gb[1] = "none" THEN <<>>
    ELSE IF gb[1] = "natural" THEN
        LET base == <<N(<<well_info>>, ""), N(<<uniq_well_ID, well_info>>, "")>>
        IN  IF t.isStitch THEN
                IF t.isZstack THEN
                    base \o <<N(Pre("stitch", match["stitch"]), ""),
                              N(match["Z"], ""), N(match["CH"], "")>>
                ELSE base \o <<N(Pre("stitch", match["stitch"]), ""), N(match["CH"], "")>>
            ELSE
                IF t.isZstack THEN base \o <<N(match["Z"], ""), N(match["CH"], "")>>
                ELSE base \o <<N(match["CH"], "")>>
    ELSE GroupLoop(<<>>, gb, well_info, uniq_well_ID, match)

\* an rmkdir that notes the directory it was called for and not the parents
\* it made on the way
RECURSIVE rmkdirLeaf(_, _, _)
rmkdirLeaf(f, dest, nd) ==
    LET up == IF ~Exists(f, Parent(dest)) THEN rmkdirLeaf(f, Parent(dest), nd)
              ELSE [fs |-> f, new_dirs |-> nd, err |-> ""]
    IN  IF up.err # "" THEN up
        ELSE IF MkdirErr(up.fs, dest) # ""
             THEN [up EXCEPT !.err = MkdirErr(up.fs, dest)]
        ELSE [fs |-> Mkdir(up.fs, dest), new_dirs |-> Append(nd, dest), err |-> ""]

\* rmkdir(dest, new_dirs): the tree and the list after it, or the error raised
RECURSIVE rmkdir(_, _, _)
rmkdir(f, dest, nd) ==
    LET up == IF ~Exists(f, Parent(dest)) THEN rmkdir(f, Parent(dest), nd)
              ELSE [fs |-> f, new_dirs |-> nd, err |-> ""]
    IN  IF up.err # "" THEN up
        ELSE IF MkdirErr(up.fs, dest) # ""
             THEN [up EXCEPT !.err = MkdirErr(up.fs, dest)]
        ELSE [fs |-> Mkdir(up.fs, dest), new_dirs |-> Append(up.new_dirs, dest), err |-> ""]


----------------------------------------------------------------------------
(* Fixed names *)

UnmovedName == N(<<"unmoved">>, "")
DSStoreName == N(<<".DS", "Store">>, "")
RecordJson == N(<<"record">>, ".json")
RecordTxt == N(<<"record">>, ".txt")

\* datetime.now().strftime('%Y.%m.%d_%H.%M.%S') at clock value n
TimeToks(n) == <<"2021.08.16", "12.00.0" \o ToString(n)>>
\* '{}_rev_{}'.format(record_time, 'record.json')
RetiredName(record_time) == N(record_time \o <<"rev", "record">>, ".json")

NoRecord == [none |-> TRUE]

\* groupby_opt of moveFiles
groupby_opt == {"none", "XY", "cond", "T", "stitch", "Z", "CH", "natural"}

----------------------------------------------------------------------------
(* The trees, condition maps and groupings the model runs on *)

Plain == [isZstack |-> FALSE, isTimelapse |-> FALSE, isStitch |-> FALSE]
Layouts ==
    {Plain,
     [isZstack |-> FALSE, isTimelapse |-> TRUE,  isStitch |-> FALSE],
     [isZstack |-> FALSE, isTimelapse |-> FALSE, isStitch |-> TRUE],
     [isZstack |-> TRUE,  isTimelapse |-> FALSE, isStitch |-> TRUE]}

\* the name the instrument gives an image of layout lay
TifName(lay, xy, ch) ==
    N(<<"img">>
        \o (IF lay.isTimelapse THEN <<"T1">> ELSE <<>>)
        \o <<"XY" \o xy>>
        \o (IF lay.isStitch THEN <<"00001">> ELSE <<>>)
        \o (IF lay.isZstack THEN <<"Z1">> ELSE <<>>)
        \o <<ch>>, ".tif")

XYDir(xy) == N(<<"XY" \o xy>>, "")
Marker(well) == N(<<"", well>>, "")

WellLayouts == {<<"A01", "A02">>, <<"A01", "A01">>}
Extras == {"plain", "dsstore", "unmoved", "toptif", "dup", "recordtxt",
           "notif", "conddir", "foreign"}

TreeDirs(extra) ==
    {<<XYDir("01")>>, <<XYDir("02")>>}
      \cup (IF extra = "unmoved" THEN {<<UnmovedName>>, <<UnmovedName, XYDir("01")>>} ELSE {})
      \cup (IF extra = "dup" THEN {<<XYDir("01"), N(<<"copy">>, "")>>} ELSE {})
      \cup (IF extra \in {"conddir", "foreign"} THEN {<<N(<<"ctl">>, "")>>} ELSE {})

TreeFiles(lay, wells, extra) ==
    {<<XYDir("01"), Marker(wells[1])>>, <<XYDir("02"), Marker(wells[2])>>}
      \cup (IF extra = "notif" THEN {}
            ELSE {<<XYDir("01"), TifName(lay, "01", "CH1")>>,
                  <<XYDir("02"), TifName(lay, "02", "CH1")>>})
      \cup (IF extra = "dsstore" THEN {<<DSStoreName>>} ELSE {})
      \cup (IF extra = "toptif" THEN {<<TifName(lay, "01", "CH2")>>} ELSE {})
      \cup (IF extra = "dup"
            THEN {<<XYDir("01"), N(<<"copy">>, ""), TifName(lay, "01", "CH1")>>} ELSE {})
      \cup (IF extra = "recordtxt" THEN {<<RecordTxt>>} ELSE {})
      \cup (IF extra = "conddir" THEN {<<N(<<"ctl">>, ""), N(<<"notes">>, ".txt")>>} ELSE {})
      \cup (IF extra = "foreign"
            THEN {<<N(<<"ctl">>, ""), N(<<"img", "A01", "ctl", "CH1">>, ".tif")>>} ELSE {})

\* a file's content is named after the path it starts at
Tree(lay, wells, extra) ==
    [p \in TreeDirs(extra) \cup TreeFiles(lay, wells, extra) |->
        IF p \in TreeDirs(extra) THEN "dir" ELSE PathStr(p)]

WellMaps == {("A01" :> "ctl") @@ ("A02" :> "trt"), ("A01" :> "ctl")}

Groupings ==
    {<<"natural">>, <<"none">>, <<"cond">>, <<"cond", "XY">>, <<"CH">>,
     <<"T">>, <<"stitch">>, <<"Z">>, <<"none", "cond">>, <<"cond", "natural">>,
     <<"natural", "none">>, <<"bogus">>}

\* those of them that mix none or natural with another option, or hold an
\* option moveFiles does not know
MixedOrUnknown ==
    {<<"none", "cond">>, <<"cond", "natural">>, <<"natural", "none">>, <<"bogus">>}


----------------------------------------------------------------------------
(* Initial state *)

NoType == [none |-> TRUE]

Init ==
    /\ \E lay \in Layouts, wells \in WellLayouts, extra \in Extras :
          /\ (lay = Plain \/ extra = "plain")
          /\ fs = Tree(lay, wells, extra)
    /\ fsKind \in {"apfs", "ext4"}
    /\ scanRev \in BOOLEAN
    /\ now = 1
    /\ recData = NoRecord
    /\ pc = "idle"
    /\ op = "none"
    /\ result = "none"
    /\ prev = "other"
    /\ snap = fs
    /\ groupby = <<>>
    /\ wellMap = EmptyDict
    /\ img_type = NoType
    /\ unmoved_list = <<>>
    /\ record = <<>>
    /\ new_dirs = <<>>
    /\ XYtoWell = EmptyDict
    /\ XYtoWell_unique = EmptyDict
    /\ todo = <<>>
    /\ mutated = FALSE
    /\ tree0 = fs
    /\ hadRecord = FALSE
    /\ goodArgs = FALSE
    /\ collides = FALSE
    /\ badArgs = FALSE
    /\ halfMoved = FALSE
    /\ fn_in = <<>>
    /\ fn_out = <<>>
    /\ fn_seen = <<>>

\* the call returns or raises: its locals are gone
EndCall(r) ==
    /\ pc' = "idle"
    /\ result' = r
    /\ groupby' = <<>>
    /\ wellMap' = EmptyDict
    /\ img_type' = NoType
    /\ unmoved_list' = <<>>
    /\ record' = <<>>
    /\ new_dirs' = <<>>
    /\ XYtoWell' = EmptyDict
    /\ XYtoWell_unique' = EmptyDict
    /\ todo' = <<>>

\* between calls: the last call was a moveFiles that wrote its record, made
\* some of the recorded moves and then failed
HalfMoved ==
    /\ pc = "idle" /\ op = "move" /\ result # "ok"
    /\ ~hadRecord /\ recData # NoRecord
    /\ \E i \in DOMAIN (recData.unmoved_list \o recData.record) :
          LET rec == (recData.unmoved_list \o recData.record)[i]
          IN  ~Exists(fs, rec[1]) /\ Exists(fs, rec[2])

BeginCall(o) ==
    /\ pc = "idle"
    /\ halfMoved' = (o = "rev" /\ HalfMoved)
    /\ op' = o
    /\ prev' = IF result = "ok" THEN op \o "_ok" ELSE "other"
    /\ mutated' = FALSE
    /\ hadRecord' = Exists(fs, <<RecordJson>>)
    /\ UNCHANGED tree0

----------------------------------------------------------------------------
(* moveFiles *)

\* the checks of one grouping token in the validation loop
TokenRejected(group, t) ==
    \/ group \notin groupby_opt
    \/ group = "T" /\ ~t.isStitch
    \/ group = "stitch" /\ ~t.isTimelapse
    \/ group = "Z" /\ ~t.isZstack

\* a check that looks at the first option only
ComboRejectedFirst(gb) == gb[1] \in {"none", "natural"} /\ Len(gb) # 1
\* 'none' or 'natural' must be the only option
ComboRejected(gb) ==
    (\E i \in 1..Len(gb) : gb[i] \in {"none", "natural"}) /\ Len(gb) # 1

\* the record whose presence rejects a new move
RecordCheckName == RecordTxt

\* the try block of moveFiles: the RuntimeError it catches, "" if none
ValidateErr(gb, t, f) ==
    IF \E i \in 1..Len(gb) : TokenRejected(gb[i], t) THEN "IncorrectGroupbyError"
    ELSE IF ComboRejected(gb) THEN "IncorrectGroupbyError"
    ELSE IF Exists(f, <<RecordCheckName>>) THEN "RecordExistsError"
    ELSE ""

\* a planning loop without the check of line 261: the lookup of line 266
\* raises KeyError
PlanErrNoCheck(f, t, gb, wm, x2w) ==
    LET match == Match(t, Last(f))
    IN  IF match = NoMatch THEN "AttributeError"
        ELSE IF Join(Pre("XY", match["XY"])) \notin DOMAIN x2w THEN "KeyError"
        ELSE IF x2w[Join(Pre("XY", match["XY"]))] \notin DOMAIN wm THEN "KeyError"
        ELSE GroupbyPathErr(gb, match)
\* the error one iteration of the planning loop raises before it makes
\* directories, "" if none
PlanErr(f, t, gb, wm, x2w) ==
    LET match == Match(t, Last(f))
    IN  IF match = NoMatch THEN "AttributeError"
        ELSE IF Join(Pre("XY", match["XY"])) \notin DOMAIN x2w THEN "KeyError"
        ELSE IF x2w[Join(Pre("XY", match["XY"]))] \notin DOMAIN wm THEN "WellNotFound"
        ELSE GroupbyPathErr(gb, match)

\* newFileName of line 273
NewFileName(n, uniq_well_ID, well_info) ==
    N(SubXY(n.toks, <<uniq_well_ID, well_info>>), n.ext)

\* the groupings every image type supports, and the wells a tree's markers name
AlwaysValid == {<<"natural">>, <<"none">>, <<"cond">>, <<"cond", "XY">>, <<"CH">>}
WellsOf(f) == {NameStr(N(Tail(Last(p).toks), Last(p).ext)) : p \in GlobMarkers(f)}

\* moveFiles up to the end of its try block: classify, validate.
\* With no .tif below path the classifier reads unbound locals.
MoveValidate(gb, wm) ==
    /\ BeginCall("move")
    /\ snap' = fs
    /\ goodArgs' = (gb \in AlwaysValid /\ \A w \in WellsOf(tree0) : w \in DOMAIN wm)
    /\ badArgs' = (gb \in MixedOrUnknown)
    /\ UNCHANGED fnVars
    /\ UNCHANGED <<fs, fsKind, scanRev, now, recData>>
    /\ IF RglobTif(fs) = {}
       THEN EndCall("UnboundLocalError") /\ collides' = FALSE
       ELSE LET t == matchImgType(Head(Scan(RglobTif(fs), scanRev)))
                err == ValidateErr(gb, t, fs)
            IN  IF err # "" THEN EndCall(err) /\ collides' = FALSE
                ELSE /\ collides' = FALSE
                     /\ pc' = "plan_unmoved"
                     /\ result' = "running"
                     /\ groupby' = gb
                     /\ wellMap' = wm
                     /\ img_type' = t
                     /\ UNCHANGED <<unmoved_list, record, new_dirs, XYtoWell,
                                    XYtoWell_unique, todo>>

\* lines 238-249: list the top-level entries, make unmoved/, map the positions
UnmovedPlan(f, rev) ==
    LET entries == Scan({e \in GlobAll(f) : Last(e) # DSStoreName}, rev)
    IN  [i \in 1..Len(entries) |-> <<entries[i], <<UnmovedName, Last(entries[i])>>>>]

MovePlanUnmoved ==
    /\ pc = "plan_unmoved"
    /\ UNCHANGED <<fsKind, scanRev, now, recData, op, prev, snap, tree0, hadRecord,
                   goodArgs, badArgs, halfMoved, fnVars>>
    /\ collides' = \E i \in DOMAIN UnmovedPlan(fs, scanRev) :
                       Exists(snap, UnmovedPlan(fs, scanRev)[i][2])
    /\ IF MkdirErr(fs, <<UnmovedName>>) # ""
       THEN /\ EndCall(MkdirErr(fs, <<UnmovedName>>))
            /\ UNCHANGED <<fs, mutated>>
       ELSE LET m == mapXYtoWell(Mkdir(fs, <<UnmovedName>>), scanRev)
            IN  /\ fs' = Mkdir(fs, <<UnmovedName>>)
                /\ mutated' = TRUE
                /\ unmoved_list' = UnmovedPlan(fs, scanRev)
                /\ new_dirs' = <<<<UnmovedName>>>>
                /\ XYtoWell' = m.XYtoWell
                /\ XYtoWell_unique' = m.XYtoWell_unique
                /\ todo' = Scan(RglobTif(fs), scanRev)
                /\ pc' = "plan_tif"
                /\ UNCHANGED <<result, groupby, wellMap, img_type, record>>

\* one iteration of the loop of lines 251-277, on the file at the head of todo
MovePlanTif ==
    /\ pc = "plan_tif"
    /\ todo # <<>>
    /\ UNCHANGED <<fsKind, scanRev, now, recData, op, prev, snap, tree0, hadRecord,
                   goodArgs, badArgs, halfMoved, fnVars>>
    /\ LET f == Head(todo)
           err == PlanErr(f, img_type, groupby, wellMap, XYtoWell)
       IN  IF err # "" THEN EndCall(err) /\ UNCHANGED <<fs, mutated, collides>>
           ELSE
             LET match == Match(img_type, Last(f))
                 key == Join(Pre("XY", match["XY"]))
                 well_ID == XYtoWell[key]
                 uniq_well_ID == XYtoWell_unique[key]
                 dest == getGroupbyPath(groupby, img_type, wellMap[well_ID],
                                        uniq_well_ID, match)
                 made == IF ~Exists(fs, dest) THEN rmkdir(fs, dest, new_dirs)
                         ELSE [fs |-> fs, new_dirs |-> new_dirs, err |-> ""]
             IN  /\ fs' = made.fs
                 /\ mutated' = (mutated \/ made.fs # fs)
                 /\ collides' = (collides \/ Exists(snap, Append(dest,
                                      NewFileName(Last(f), uniq_well_ID, wellMap[well_ID]))))
                 /\ IF made.err # "" THEN EndCall(made.err)
                    ELSE /\ new_dirs' = made.new_dirs
                         /\ record' = Append(record,
                               <<f, Append(dest, NewFileName(Last(f), uniq_well_ID,
                                                             wellMap[well_ID]))>>)
                         /\ todo' = Tail(todo)
                         /\ pc' = IF Tail(todo) = <<>> THEN "persist" ELSE "plan_tif"
                         /\ UNCHANGED <<result, groupby, wellMap, img_type,
                                        unmoved_list, XYtoWell, XYtoWell_unique>>

\* a record that leaves the created directories out
RecordOfNoDirs(t, u, r, nd) ==
    [record_time |-> t, unmoved_list |-> u, record |-> r, new_dirs |-> <<>>]
\* lines 284-288: the dictionary json.dump writes
RecordOf(t, u, r, nd) ==
    [record_time |-> t, unmoved_list |-> u, record |-> r, new_dirs |-> nd]

\* lines 282-288: write record.json
MovePersist ==
    /\ pc = "persist"
    /\ fs' = Put(fs, <<RecordJson>>, "record")
    /\ recData' = RecordOf(TimeToks(now), unmoved_list, record, new_dirs)
    /\ mutated' = TRUE
    /\ todo' = IF record = <<>> THEN unmoved_list ELSE record
    /\ pc' = IF record = <<>> THEN "move_unmoved" ELSE "move_tif"
    /\ UNCHANGED <<fsKind, scanRev, now, op, result, prev, snap, groupby, wellMap,
                   img_type, unmoved_list, record, new_dirs, XYtoWell,
                   XYtoWell_unique, tree0, hadRecord, goodArgs, badArgs, halfMoved, fnVars, collides>>

\* a guard that lets every move through
MayMoveAlways(f, dest) == TRUE
\* the guard of lines 295 and 307 (and 341): move only if dest does not exist
MayMove(f, dest) == ~Exists(f, dest)

\* one iteration of either move loop: the error it raises, "" if none
MoveErr(f, src, dest) ==
    IF ~MayMove(f, dest) THEN "DestExistsError" ELSE ReplaceErr(f, src, dest)

\* one iteration of the loop of lines 291-300
MoveTif ==
    /\ pc = "move_tif"
    /\ todo # <<>>
    /\ UNCHANGED <<fsKind, scanRev, now, recData, op, prev, snap, tree0, hadRecord,
                   goodArgs, badArgs, halfMoved, fnVars, collides>>
    /\ LET src == Head(todo)[1]
           dest == Head(todo)[2]
       IN  IF MoveErr(fs, src, dest) # ""
           THEN EndCall(MoveErr(fs, src, dest)) /\ UNCHANGED <<fs, mutated>>
           ELSE /\ fs' = Replace(fs, src, dest)
                /\ mutated' = TRUE
                /\ todo' = IF Tail(todo) = <<>> THEN unmoved_list ELSE Tail(todo)
                /\ pc' = IF Tail(todo) = <<>> THEN "move_unmoved" ELSE "move_tif"
                /\ UNCHANGED <<result, groupby, wellMap, img_type, unmoved_list,
                               record, new_dirs, XYtoWell, XYtoWell_unique>>

\* one iteration of the loop of lines 303-313; after the last one moveFiles returns
MoveUnmoved ==
    /\ pc = "move_unmoved"
    /\ UNCHANGED <<fsKind, scanRev, now, recData, op, prev, snap, tree0, hadRecord,
                   goodArgs, badArgs, halfMoved, fnVars, collides>>
    /\ IF todo = <<>> THEN EndCall("ok") /\ UNCHANGED <<fs, mutated>>
       ELSE LET src == Head(todo)[1]
                dest == Head(todo)[2]
            IN  IF MoveErr(fs, src, dest) # ""
                THEN EndCall(MoveErr(fs, src, dest)) /\ UNCHANGED <<fs, mutated>>
                ELSE /\ fs' = Replace(fs, src, dest)
                     /\ mutated' = TRUE
                     /\ IF Tail(todo) = <<>> THEN EndCall("ok")
                        ELSE /\ todo' = Tail(todo)
                             /\ UNCHANGED <<pc, result, groupby, wellMap, img_type,
                                            unmoved_list, record, new_dirs, XYtoWell,
                                            XYtoWell_unique>>


----------------------------------------------------------------------------
(* revMoveFiles *)

\* list.sort(key=len, reverse=True) on path strings: a stable sort, longest first
RECURSIVE InsertByLen(_, _)
InsertByLen(sorted, d) ==
    IF sorted = <<>> THEN <<d>>
    ELSE IF Len(PathStr(Head(sorted))) >= Len(PathStr(d))
         THEN <<Head(sorted)>> \o InsertByLen(Tail(sorted), d)
         ELSE <<d>> \o sorted

RECURSIVE SortByLenDesc(_)
SortByLenDesc(dirs) ==
    IF dirs = <<>> THEN <<>>
    ELSE InsertByLen(SortByLenDesc(SubSeq(dirs, 1, Len(dirs) - 1)), dirs[Len(dirs)])

\* the order in which revMoveFiles removes the recorded directories
RemovalOrder(dirs) == SortByLenDesc(dirs)

\* an order that undoes the image moves first
UndoOrderImagesFirst(rev_data) == rev_data.record \o rev_data.unmoved_list
\* the order in which revMoveFiles undoes the recorded moves
UndoOrder(rev_data) == rev_data.unmoved_list \o rev_data.record

\* a check that looks for the record under its former name
RecordPresentTxt(f) == Exists(f, <<RecordTxt>>)
\* the check of line 324
RecordPresent(f) == Exists(f, <<RecordJson>>)

\* lines 324-332: the record must exist; open and load it
RevStart ==
    /\ BeginCall("rev")
    /\ UNCHANGED <<fs, fsKind, scanRev, now, recData, snap>>
    /\ goodArgs' = FALSE
    /\ badArgs' = FALSE
    /\ collides' = (/\ recData # NoRecord
                    /\ \E i \in DOMAIN UndoOrder(recData) :
                          Exists(fs, UndoOrder(recData)[i][1]))
    /\ UNCHANGED fnVars
    /\ IF ~RecordPresent(fs) THEN EndCall("RecordDoesNotExistsError")
       ELSE IF ~Exists(fs, <<RecordJson>>) THEN EndCall("FileNotFoundError")
       ELSE /\ pc' = IF UndoOrder(recData) = <<>> THEN "rev_rmdir" ELSE "rev_move"
            /\ todo' = IF UndoOrder(recData) = <<>> THEN RemovalOrder(recData.new_dirs)
                       ELSE UndoOrder(recData)
            /\ result' = "running"
            /\ UNCHANGED <<groupby, wellMap, img_type, unmoved_list, record, new_dirs,
                           XYtoWell, XYtoWell_unique>>

\* one iteration of the loop of lines 335-347: rec[1] back to rec[0]
RevMove ==
    /\ pc = "rev_move"
    /\ todo # <<>>
    /\ UNCHANGED <<fsKind, scanRev, now, recData, op, prev, snap, tree0, hadRecord,
                   goodArgs, badArgs, halfMoved, fnVars, collides>>
    /\ LET dest == Head(todo)[1]
           src == Head(todo)[2]
       IN  IF MoveErr(fs, src, dest) # ""
           THEN EndCall(MoveErr(fs, src, dest)) /\ UNCHANGED <<fs, mutated>>
           ELSE /\ fs' = Replace(fs, src, dest)
                /\ mutated' = TRUE
                /\ todo' = IF Tail(todo) = <<>> THEN RemovalOrder(recData.new_dirs)
                           ELSE Tail(todo)
                /\ pc' = IF Tail(todo) = <<>> THEN "rev_rmdir" ELSE "rev_move"
                /\ UNCHANGED <<result, groupby, wellMap, img_type, unmoved_list,
                               record, new_dirs, XYtoWell, XYtoWell_unique>>

\* the size revMoveFiles takes for that of an empty directory
EmptyDirSize == 64

\* lines 354-358 on directory d: the error raised, "" if none
RmdirStepErr(f, kind, d) ==
    IF ~Exists(f, d) THEN "FileNotFoundError"
    ELSE IF StSize(f, kind, d) # EmptyDirSize
         THEN IF UnlinkErr(f, Append(d, DSStoreName)) # ""
              THEN UnlinkErr(f, Append(d, DSStoreName))
              ELSE RmdirErr(Remove(f, Append(d, DSStoreName)), d)
    ELSE RmdirErr(f, d)

\* the tree after lines 354-358 succeed on d
RmdirStep(f, kind, d) ==
    IF StSize(f, kind, d) # EmptyDirSize
    THEN Remove(Remove(f, Append(d, DSStoreName)), d)
    ELSE Remove(f, d)

\* one iteration of the loop of lines 352-358
RevRmdir ==
    /\ pc = "rev_rmdir"
    /\ UNCHANGED <<fsKind, scanRev, now, recData, op, prev, snap, tree0, hadRecord,
                   goodArgs, badArgs, halfMoved, fnVars, collides>>
    /\ IF todo = <<>>
       THEN /\ pc' = "rev_retire"
            /\ UNCHANGED <<fs, mutated, result, groupby, wellMap, img_type,
                           unmoved_list, record, new_dirs, XYtoWell,
                           XYtoWell_unique, todo>>
       ELSE LET d == Head(todo)
            IN  IF RmdirStepErr(fs, fsKind, d) # ""
                THEN EndCall(RmdirStepErr(fs, fsKind, d)) /\ UNCHANGED <<fs, mutated>>
                ELSE /\ fs' = RmdirStep(fs, fsKind, d)
                     /\ mutated' = TRUE
                     /\ todo' = Tail(todo)
                     /\ pc' = IF Tail(todo) = <<>> THEN "rev_retire" ELSE "rev_rmdir"
                     /\ UNCHANGED <<result, groupby, wellMap, img_type, unmoved_list,
                                    record, new_dirs, XYtoWell, XYtoWell_unique>>

\* a retired name stamped with the time of the reversal
RetireToNow(rev_data) == RetiredName(TimeToks(now))
\* the name line 363 gives the retired record
RetireTo(rev_data) == RetiredName(rev_data.record_time)

\* line 363: rename record.json (os.rename replaces an existing file)
RevRetire ==
    /\ pc = "rev_retire"
    /\ UNCHANGED <<fsKind, scanRev, now, op, prev, snap, tree0, hadRecord, goodArgs, badArgs, halfMoved, fnVars,
                   collides>>
    /\ IF ReplaceErr(fs, <<RecordJson>>, <<RetireTo(recData)>>) # ""
       THEN /\ EndCall(ReplaceErr(fs, <<RecordJson>>, <<RetireTo(recData)>>))
            /\ UNCHANGED <<fs, recData, mutated>>
       ELSE /\ fs' = Replace(fs, <<RecordJson>>, <<RetireTo(recData)>>)
            /\ recData' = NoRecord
            /\ mutated' = TRUE
            /\ EndCall("ok")

----------------------------------------------------------------------------
(* The clock, and the specification *)

Tick ==
    /\ pc = "idle"
    /\ now < MaxTime
    /\ recData # NoRecord   \* the time is read at line 285 only: it matters
                            \* how long a record has been there, not when it began
    /\ now' = now + 1
    /\ UNCHANGED <<fs, fsKind, scanRev, recData, pc, op, result, prev, snap, groupby,
                   wellMap, img_type, unmoved_list, record, new_dirs, XYtoWell,
                   XYtoWell_unique, todo, mutated, tree0, hadRecord, goodArgs, badArgs, halfMoved, fnVars,
                   collides>>

Next ==
    \/ \E gb \in Groupings, wm \in WellMaps : MoveValidate(gb, wm)
    \/ MovePlanUnmoved
    \/ MovePlanTif
    \/ MovePersist
    \/ MoveTif
    \/ MoveUnmoved
    \/ RevStart
    \/ RevMove
    \/ RevRmdir
    \/ RevRetire
    \/ Tick

Spec == Init /\ [][Next]_vars

\* the model keeps record.json and its content together
RecordFileOK == (recData # NoRecord) <=> Exists(fs, <<RecordJson>>)

----------------------------------------------------------------------------
(* mapXYtoWell on its own: a folder of positions, each with the shortcut  *)
(* of its well, scanned in any order                                       *)

MaxPos == 3
MapWells == {"A01", "A02"}

\* the variables of moveFiles and revMoveFiles
progVars ==
    <<fs, fsKind, scanRev, now, recData, pc, op, result, prev, snap, groupby,
      wellMap, img_type, unmoved_list, record, new_dirs, XYtoWell,
      XYtoWell_unique, todo, mutated, tree0, hadRecord, goodArgs, collides,
      badArgs, halfMoved>>

\* no call of moveFiles or revMoveFiles has been made, on tree f
NoCall(f) ==
    /\ fs = f /\ snap = f /\ tree0 = f
    /\ fsKind = "apfs" /\ scanRev = FALSE /\ now = 1
    /\ recData = NoRecord
    /\ pc = "idle" /\ op = "none" /\ result = "none" /\ prev = "other"
    /\ groupby = <<>> /\ wellMap = EmptyDict /\ img_type = NoType
    /\ unmoved_list = <<>> /\ record = <<>> /\ new_dirs = <<>>
    /\ XYtoWell = EmptyDict /\ XYtoWell_unique = EmptyDict
    /\ todo = <<>>
    /\ mutated = FALSE /\ hadRecord = FALSE /\ goodArgs = FALSE
    /\ collides = FALSE /\ badArgs = FALSE /\ halfMoved = FALSE

\* positions XY01 .. XY0k, position i holding the shortcut of wells[i]
MarkerTree(wells) ==
    [p \in {<<XYDir("0" \o ToString(i))>> : i \in 1..Len(wells)}
             \cup {<<XYDir("0" \o ToString(i)), Marker(wells[i])>> : i \in 1..Len(wells)}
        |-> IF Len(p) = 1 THEN "dir" ELSE PathStr(p)]

\* the orders in which a scan may yield the members of S
Orders(S) ==
    {s \in [1..Cardinality(S) -> S] : \A i, j \in 1..Cardinality(S) : i # j => s[i] # s[j]}

MapInit ==
    /\ \E k \in 0..MaxPos : \E wells \in [1..k -> MapWells] : NoCall(MarkerTree(wells))
    /\ fn_in \in Orders(GlobMarkers(fs))
    /\ fn_out = mapStart
    /\ fn_seen = <<>>

\* one iteration of the loop of lines 85-111
MapScan ==
    /\ fn_in # <<>>
    /\ fn_out' = mapStep(fn_out, Head(fn_in))
    /\ fn_in' = Tail(fn_in)
    /\ fn_seen' = Append(fn_seen, Head(fn_in))
    /\ UNCHANGED progVars

MapNext == MapScan

MapSpec == MapInit /\ [][MapNext]_vars


----------------------------------------------------------------------------
(* moveFiles and revMoveFiles on a folder that something else writes to   *)
(* between two calls: while a record is there, a file appears at a path   *)
(* the record says a file or directory was moved away from                *)

MaxObstacles == 1

Obstacles(f) == {p \in DOMAIN f : f[p] = "obstacle"}

Obstruct ==
    /\ pc = "idle"
    /\ recData # NoRecord
    /\ Cardinality(Obstacles(fs)) < MaxObstacles
    /\ \E i \in DOMAIN UndoOrder(recData) :
          LET p == UndoOrder(recData)[i][1]
          IN  /\ ~Exists(fs, p)
              /\ IsDir(fs, Parent(p))
              /\ fs' = fs @@ (p :> "obstacle")
    /\ UNCHANGED <<fsKind, scanRev, now, recData, pc, op, result, prev, snap, groupby,
                   wellMap, img_type, unmoved_list, record, new_dirs, XYtoWell,
                   XYtoWell_unique, todo, mutated, tree0, hadRecord, goodArgs,
                   collides, badArgs, halfMoved, fnVars>>

ObstructInit ==
    /\ Init
    /\ \E wells \in WellLayouts : fs = Tree(Plain, wells, "plain")

ObstructNext == Next \/ Obstruct

ObstructSpec == ObstructInit /\ [][ObstructNext]_vars

----------------------------------------------------------------------------
(* getGroupbyPath on its own: one image of a folder, the grouping of a    *)
(* call that passed the checks of moveFiles, the image type and the match *)
(* computed as moveFiles computes them                                    *)

MaxGroups == 2

\* the fields of an image name; "" for a field the name does not have
PathFields ==
    [T : {"", "1", "3"}, stitch : {"", "00001", "00045"}, Z : {"", "1", "2"},
     CH : {"CH1", "Overlay"}]

\* the name the instrument gives the image with fields fl at position xy
ImageName(fl, xy) ==
    N(<<"img">>
        \o (IF fl.T # "" THEN <<"T" \o fl.T>> ELSE <<>>)
        \o <<"XY" \o xy>>
        \o (IF fl.stitch # "" THEN <<fl.stitch>> ELSE <<>>)
        \o (IF fl.Z # "" THEN <<"Z" \o fl.Z>> ELSE <<>>)
        \o <<fl.CH>>, ".tif")

\* position XY01 with the image in it
ImageTree(n) ==
    (<<XYDir("01")>> :> "dir")
       @@ (<<XYDir("01"), n>> :> PathStr(<<XYDir("01"), n>>))

\* the groupings of at most MaxGroups options
PathGroupings == UNION {[1..k -> groupby_opt] : k \in 1..MaxGroups}

UniqueLabels == {"A01", "A01(2)"}

NoPath == [none |-> TRUE]

PathInit ==
    /\ \E fl \in PathFields : NoCall(ImageTree(ImageName(fl, "01")))
    /\ \E fl \in PathFields, gb \in PathGroupings, u \in UniqueLabels :
          /\ <<XYDir("01"), ImageName(fl, "01")>> \in DOMAIN fs
          /\ ValidateErr(gb, matchImgType(<<ImageName(fl, "01")>>), fs) = ""
          /\ fn_in = <<[groupby |-> gb, f |-> ImageName(fl, "01"), fields |-> fl,
                        well_info |-> "ctl", uniq_well_ID |-> u]>>
    /\ fn_out = NoPath
    /\ fn_seen = <<>>

\* lines 254 and 264-265 on the image: the match, then getGroupbyPath
PathApply ==
    /\ fn_in # <<>>
    /\ LET in == Head(fn_in)
           t == matchImgType(<<in.f>>)
           match == Match(t, in.f)
       IN  fn_out' =
              IF GroupbyPathErr(in.groupby, match) # ""
              THEN [err |-> GroupbyPathErr(in.groupby, match), dest |-> <<>>]
              ELSE [err |-> "",
                    dest |-> getGroupbyPath(in.groupby, t, in.well_info,
                                            in.uniq_well_ID, match)]
    /\ fn_in' = Tail(fn_in)
    /\ fn_seen' = Append(fn_seen, Head(fn_in))
    /\ UNCHANGED progVars

PathNext == PathApply

PathSpec == PathInit /\ [][PathNext]_vars

----------------------------------------------------------------------------
(* The path argument: moveFiles and revMoveFiles called with the group    *)
(* folder named absolutely, relatively, or as the default '.'             *)

\* a pathlib path: its root ('/' or '') and its parts after the root
PurePath(root, parts) == [root |-> root, parts |-> parts]

\* Path(args.group_folder_path) for '.', 'grp' and '/data/grp'
PathArgs ==
    {PurePath("", <<>>), PurePath("", <<N(<<"grp">>, "")>>),
     PurePath("/", <<N(<<"data">>, ""), N(<<"grp">>, "")>>)}

\* path / p, the form in which glob, rglob and the / operator give the
\* entry p of the folder: the root and parts of path, then p
Under(path, p) == PurePath(path.root, path.parts \o p)

\* Path.is_absolute() (POSIX)
IsAbsolute(q) == q.root = "/"

\* every path of a record: both ends of its pairs, and its new directories
RecordPaths(rev_data) ==
    {UndoOrder(rev_data)[i][j] : i \in DOMAIN UndoOrder(rev_data), j \in 1..2}
      \cup {rev_data.new_dirs[i] : i \in DOMAIN rev_data.new_dirs}

ArgInit ==
    /\ \E wells \in WellLayouts : NoCall(Tree(Plain, wells, "plain"))
    /\ \E path \in PathArgs : fn_in = <<path>>
    /\ fn_out = <<>>
    /\ fn_seen = <<>>

ArgNext == Next

ArgSpec == ArgInit /\ [][ArgNext]_vars

----------------------------------------------------------------------------
(* The checks of moveFiles and its planner together, on one image: any    *)
(* grouping, accepted or not                                              *)

PlanInit ==
    /\ \E fl \in PathFields : NoCall(ImageTree(ImageName(fl, "01")))
    /\ \E fl \in PathFields, gb \in PathGroupings, u \in UniqueLabels :
          /\ <<XYDir("01"), ImageName(fl, "01")>> \in DOMAIN fs
          /\ fn_in = <<[groupby |-> gb, f |-> ImageName(fl, "01"), fields |-> fl,
                        well_info |-> "ctl", uniq_well_ID |-> u]>>
    /\ fn_out = NoPath
    /\ fn_seen = <<>>

\* lines 194-226, then lines 254 and 264-265 on the image
PlanApply ==
    /\ fn_in # <<>>
    /\ LET in == Head(fn_in)
           t == matchImgType(<<in.f>>)
           match == Match(t, in.f)
       IN  fn_out' =
              IF ValidateErr(in.groupby, t, fs) # ""
              THEN [err |-> ValidateErr(in.groupby, t, fs), dest |-> <<>>]
              ELSE IF GroupbyPathErr(in.groupby, match) # ""
              THEN [err |-> GroupbyPathErr(in.groupby, match), dest |-> <<>>]
              ELSE [err |-> "",
                    dest |-> getGroupbyPath(in.groupby, t, in.well_info,
                                            in.uniq_well_ID, match)]
    /\ fn_in' = Tail(fn_in)
    /\ fn_seen' = Append(fn_seen, Head(fn_in))
    /\ UNCHANGED progVars

PlanNext == PlanApply

PlanSpec == PlanInit /\ [][PlanNext]_vars

----------------------------------------------------------------------------
(* The renaming of line 273 on its own: one image name, its unique label  *)
(* and its condition                                                      *)

\* the prefixes of the image names: the part before the fields, which the
\* user chooses on the instrument
Prefixes == {<<"img">>, <<"img", "XY02">>}

\* the image name with that prefix
PrefixedName(pre, fl, xy) == N(pre \o Tail(ImageName(fl, xy).toks), ".tif")

NameInit ==
    /\ \E pre \in Prefixes, fl \in PathFields, u \in UniqueLabels :
          /\ NoCall(ImageTree(PrefixedName(pre, fl, "01")))
          /\ fn_in = <<[f |-> PrefixedName(pre, fl, "01"), prefix |-> pre, fields |-> fl,
                        well_info |-> "ctl", uniq_well_ID |-> u]>>
    /\ fn_out = NoPath
    /\ fn_seen = <<>>

\* lines 254 and 273 on the image: the match, then the substitution
NameApply ==
    /\ fn_in # <<>>
    /\ LET in == Head(fn_in)
       IN  fn_out' = [match |-> Match(matchImgType(<<in.f>>), in.f),
                      newFileName |-> NewFileName(in.f, in.uniq_well_ID, in.well_info)]
    /\ fn_in' = Tail(fn_in)
    /\ fn_seen' = Append(fn_seen, Head(fn_in))
    /\ UNCHANGED progVars

NameNext == NameApply

NameSpec == NameInit /\ [][NameNext]_vars

----------------------------------------------------------------------------
(* well_mapping: a plate specification, its items taken one at a time     *)

\* list('ABCDEFGHIJKLMNOP'), cti_mapping and itc_mapping
RowLetters ==
    <<"A", "B", "C", "D", "E", "F", "G", "H", "I", "J", "K", "L", "M", "N", "O", "P">>
cti_mapping(c) == (CHOOSE i \in DOMAIN RowLetters : RowLetters[i] = c) - 1
itc_mapping(i) == RowLetters[i + 1]

\* int(s) for a string of digits, given as the sequence of its characters
DigitVal(c) == CHOOSE v \in 0..9 : ToString(v) = c
RECURSIVE IntOf(_)
IntOf(ds) ==
    IF ds = <<>> THEN 0
    ELSE 10 * IntOf(SubSeq(ds, 1, Len(ds) - 1)) + DigitVal(ds[Len(ds)])

\* a well name that keeps the column as the specification spells it
WellNameAsWritten(let, n) == let \o ToString(n)
\* '{}{:02d}'.format(let, n)
WellName(let, n) == let \o (IF n < 10 THEN "0" \o ToString(n) ELSE ToString(n))

\* a well as a region specifier spells it: a letter and digits
Corner(let, ds) == [let |-> let, digits |-> ds]
\* the two forms of a region specifier
Single(c) == [a |-> c]
Dual(c1, c2) == [a |-> c1, b |-> c2]

\* what [A-P]\d+ matches
IsWellText(c) == (\E i \in DOMAIN RowLetters : RowLetters[i] = c.let) /\ c.digits # <<>>

\* single_result and dual_result are both None
TokenInvalid(token) ==
    \/ ~IsWellText(token.a)
    \/ ("b" \in DOMAIN token /\ ~IsWellText(token.b))

Lesser(x, y) == IF x <= y THEN x ELSE y
Greater(x, y) == IF x <= y THEN y ELSE x

\* the wells one region specifier adds (lines 569-582)
TokenWells(token) ==
    IF "b" \notin DOMAIN token
    THEN {WellName(token.a.let, IntOf(token.a.digits))}
    ELSE {WellName(itc_mapping(r), c) :
             r \in Lesser(cti_mapping(token.a.let), cti_mapping(token.b.let))
                     ..Greater(cti_mapping(token.a.let), cti_mapping(token.b.let)),
             c \in Lesser(IntOf(token.a.digits), IntOf(token.b.digits))
                     ..Greater(IntOf(token.a.digits), IntOf(token.b.digits))}

\* a merge that puts the later condition first
MergeWellsFront(output_mapping, key, wells, separator) ==
    [w \in DOMAIN output_mapping \cup wells |->
        IF w \notin wells THEN output_mapping[w]
        ELSE IF w \in DOMAIN output_mapping THEN key \o separator \o output_mapping[w]
        ELSE key]
\* lines 583-588: the condition of the item goes to each of its wells
MergeWells(output_mapping, key, wells, separator) ==
    [w \in DOMAIN output_mapping \cup wells |->
        IF w \notin wells THEN output_mapping[w]
        ELSE IF w \in DOMAIN output_mapping THEN output_mapping[w] \o separator \o key
        ELSE key]

\* the default separator
Separator == "."

\* one iteration of the loop of line 555 on the item (key, val), val being
\* the list of its region specifiers after the split of line 557
wellStep(out, item) ==
    IF out.err # "" THEN out
    ELSE IF \E i \in DOMAIN item.val : TokenInvalid(item.val[i])
    THEN [out EXCEPT !.err = "ValueError"]
    ELSE [out EXCEPT !.output_mapping =
            MergeWells(out.output_mapping, item.key,
                       UNION {TokenWells(item.val[i]) : i \in DOMAIN item.val}, Separator)]

RECURSIVE wellLoop(_, _)
wellLoop(out, items) ==
    IF items = <<>> THEN out ELSE wellLoop(wellStep(out, Head(items)), Tail(items))

wellStart == [err |-> "", output_mapping |-> EmptyDict]

\* well_mapping(plate_spec), plate_spec given as the sequence of its items
well_mapping(plate_spec) == wellLoop(wellStart, plate_spec)

MaxItems == 2

A1 == Corner("A", <<"1">>)
A01 == Corner("A", <<"0", "1">>)
A2 == Corner("A", <<"2">>)
B2 == Corner("B", <<"2">>)
B02 == Corner("B", <<"0", "2">>)

\* the well specifications of the items
WellSpecs ==
    {<<Single(A1)>>, <<Single(A01)>>, <<Dual(A1, B2)>>, <<Dual(B02, A01)>>,
     <<Dual(A1, B2), Single(B2)>>, <<Single(A2), Single(A1), Single(A01)>>,
     <<Dual(A2, B2), Dual(A1, A2)>>, <<Single(Corner("a", <<"1">>))>>}

Conditions == {"MEF", "293"}

WellInit ==
    /\ NoCall(EmptyDict)
    /\ \E k \in 1..MaxItems :
          fn_in \in [1..k -> [key : Conditions, val : WellSpecs]]
    /\ fn_out = wellStart
    /\ fn_seen = <<>>

\* one iteration of the loop of line 555
WellScan ==
    /\ fn_in # <<>>
    /\ fn_out' = wellStep(fn_out, Head(fn_in))
    /\ fn_in' = Tail(fn_in)
    /\ fn_seen' = Append(fn_seen, Head(fn_in))
    /\ UNCHANGED progVars

WellNext == WellScan

WellSpec == WellInit /\ [][WellNext]_vars

----------------------------------------------------------------------------
(* The command line: one call of moveFiles or revMoveFiles, then the end  *)
(* of the script                                                          *)

\* the error classes the module defines for its own failures
TaxonomyErrors ==
    {"IncorrectGroupbyError", "RecordExistsError", "RecordDoesNotExistsError",
     "WellNotFound", "DestExistsError"}

\* lines 224-226: an error raised by the checks of moveFiles is printed and
\* the function returns
Caught(o, r) == o = "move" /\ r \in {"IncorrectGroupbyError", "RecordExistsError"}

\* lines 652-656: the script ends after the call; the interpreter exits with
\* 0 when the call returned and with 1 when an exception left it
ExitStatus(o, r) == IF r = "ok" \/ Caught(o, r) THEN 0 ELSE 1

----------------------------------------------------------------------------
(* Properties *)

\* the files that carry data: everything but directories, move records and
\* the .DS_Store marker
DataFiles(f) == {p \in DOMAIN f : f[p] \notin {"dir", "record"} /\ Last(p) # DSStoreName}

\* tree f is tree g again, retired move records aside
Restored(f, g) ==
    /\ \A p \in DOMAIN g : p \in DOMAIN f /\ f[p] = g[p]
    /\ \A p \in DOMAIN f \ DOMAIN g : f[p] = "record"

\* C1: a revMoveFiles that follows a successful moveFiles succeeds and leaves
\* the tree as it was before that moveFiles: every file and directory at its
\* original path, every directory the move created removed.
RoundTrip ==
    (pc = "idle" /\ op = "rev" /\ prev = "move_ok")
        => (result = "ok" /\ Restored(fs, snap))

\* a step of one of the three move loops that changes the tree, and where
\* it moves to
MoveStep == pc \in {"move_tif", "move_unmoved", "rev_move"} /\ fs' # fs
MoveDest == IF pc = "rev_move" THEN Head(todo)[1] ELSE Head(todo)[2]

\* C2: no step of any call, completed or aborted, loses or duplicates a data
\* file: each one is at exactly one path afterwards; and no move, forward or
\* inverse, lands on a path that exists.
NoDataDestroyed ==
    [][/\ \A p \in DataFiles(fs) :
             Cardinality({q \in DataFiles(fs') : fs'[q] = fs[p]}) = 1
       /\ MoveStep => ~Exists(fs, MoveDest)]_vars

\* a moveFiles stopped by an existing destination after it had moved files
CollisionAfterMoves ==
    pc = "idle" /\ op = "move" /\ result = "DestExistsError" /\ fs # snap

\* C3: a moveFiles that passes validation while a destination of its plan
\* exists raises DestExistsError, leaves the tree as it was and writes no
\* record.
CollisionSafe ==
    (pc = "idle" /\ op = "move" /\ collides)
        => (result = "DestExistsError" /\ fs = snap /\ ~Exists(fs, <<RecordJson>>))

\* C4: whenever a step moves a data file, record.json is present, and in
\* moveFiles it holds the whole plan: the time, the list of unmoved
\* entries, the list of image moves and the created directories.
RecordBeforeMoves ==
    [][(\E p \in DataFiles(fs) : p \notin DOMAIN fs' \/ fs'[p] # fs[p])
          => /\ Exists(fs, <<RecordJson>>)
             /\ op = "move" =>
                   /\ recData.unmoved_list = unmoved_list
                   /\ recData.record = record
                   /\ recData.new_dirs = new_dirs
                   /\ \E n \in 1..now : recData.record_time = TimeToks(n)]_vars

\* moveFiles has moved an image and is about to move the unmoved entries
ImagesMoved ==
    /\ pc = "move_unmoved" /\ op = "move"
    /\ record # <<>>
    /\ \A i \in DOMAIN record : Exists(fs, record[i][2]) /\ ~Exists(fs, record[i][1])

\* C5: during and after a moveFiles, a directory that was not there when the
\* call started exists only if record.json exists.
NoDirBeforeRecord ==
    (op = "move" /\ \E d \in DOMAIN fs \ DOMAIN snap : fs[d] = "dir")
        => Exists(fs, <<RecordJson>>)

\* C6: a moveFiles that follows a successful moveFiles (grouping accepted)
\* is rejected with RecordExistsError and leaves the tree as it was.
SecondMoveRejected ==
    (pc = "idle" /\ op = "move" /\ prev = "move_ok" /\ result # "IncorrectGroupbyError")
        => (result = "RecordExistsError" /\ fs = snap)

\* revMoveFiles starts: the step from idle that sets op to rev
RevBegins == pc = "idle" /\ op' = "rev" /\ now' = now

\* C7: a revMoveFiles started with no record.json raises
\* RecordDoesNotExistsError and changes nothing; one started right after a
\* successful revMoveFiles does so.
RevNeedsRecord ==
    [][(RevBegins /\ (~Exists(fs, <<RecordJson>>) \/ (op = "rev" /\ result = "ok")))
          => /\ pc' = "idle"
             /\ result' = "RecordDoesNotExistsError"
             /\ fs' = fs
             /\ recData' = recData]_vars

\* a second revMoveFiles, after a successful one, has been refused
SecondRevRefused ==
    pc = "idle" /\ op = "rev" /\ prev = "rev_ok" /\ result = "RecordDoesNotExistsError"

\* C8: a successful revMoveFiles ends by renaming record.json to a name
\* made of the time the record holds and "_rev_record.json", so no
\* record.json is left; a moveFiles right after it is not rejected with
\* RecordExistsError and, given a grouping and conditions that fit, goes on
\* to plan.
RecordRetired ==
    [][/\ (pc = "rev_retire" /\ pc' = "idle" /\ result' = "ok")
          => /\ ~Exists(fs', <<RecordJson>>)
             /\ Exists(fs', <<RetiredName(recData.record_time)>>)
             /\ fs'[<<RetiredName(recData.record_time)>>] = fs[<<RecordJson>>]
       /\ (pc = "idle" /\ op = "rev" /\ result = "ok" /\ op' = "move")
          => /\ result' # "RecordExistsError"
             /\ goodArgs' => pc' = "plan_unmoved"]_vars

\* a moveFiles is planning after a reversal retired a record written at an
\* earlier time
MoveAfterRetire ==
    /\ pc = "plan_unmoved" /\ prev = "rev_ok"
    /\ now > 1
    /\ Exists(fs, <<RetiredName(TimeToks(1))>>)

\* the trees with images and markers only
CleanTree(f) == \E lay \in Layouts, wells \in WellLayouts : f = Tree(lay, wells, "plain")

\* C9: between calls a directory is in one of two states.  With no
\* record.json it is ready: a moveFiles with a grouping every image type
\* supports and a condition for every well completes.  With record.json a
\* moveFiles is rejected with RecordExistsError.
TwoStates ==
    (pc = "idle" /\ op = "move" /\ goodArgs /\ CleanTree(tree0))
        => IF hadRecord THEN result = "RecordExistsError" ELSE result = "ok"

\* the field of the file name a grouping option stands for was detected
FieldDetected(group, t) ==
    /\ group = "T" => t.isTimelapse
    /\ group = "stitch" => t.isStitch
    /\ group = "Z" => t.isZstack

\* C10: a moveFiles that got past validation has, for each of T, stitch and
\* Z in its grouping, detected that field in the file names.
FieldTokensChecked ==
    (op = "move" /\ pc # "idle") => \A i \in DOMAIN groupby : FieldDetected(groupby[i], img_type)

\* C11: a moveFiles on a tree with images whose grouping mixes none or
\* natural with another option (the two together and any position
\* included), or holds an unknown option, is rejected with
\* IncorrectGroupbyError and leaves the tree and the record as they were.
BadGroupingRejected ==
    (pc = "idle" /\ op = "move" /\ badArgs /\ RglobTif(snap) # {})
        => (result = "IncorrectGroupbyError" /\ fs = snap /\ ~mutated)

\* such a call has been rejected on a tree that no call had changed
MixedRejected ==
    /\ pc = "idle" /\ op = "move" /\ badArgs
    /\ result = "IncorrectGroupbyError"
    /\ fs = tree0 /\ RglobTif(fs) # {}

\* the planning loop is at a matched image whose position has a well that
\* the condition map has no entry for
AtUnmappedWell ==
    /\ pc = "plan_tif" /\ todo # <<>>
    /\ Match(img_type, Last(Head(todo))) # NoMatch
    /\ LET key == Join(Pre("XY", Match(img_type, Last(Head(todo)))["XY"]))
       IN  key \in DOMAIN XYtoWell /\ XYtoWell[key] \notin DOMAIN wellMap

\* nothing that was in tree g has moved in tree f, and record.json is there
\* in both or in neither
NothingMoved(f, g) ==
    /\ \A p \in DOMAIN g : p \in DOMAIN f /\ f[p] = g[p]
    /\ Exists(f, <<RecordJson>>) <=> Exists(g, <<RecordJson>>)

\* the plan is complete: every image of the tree has its entry in the
\* record list, and its well a condition
NoneSkipped ==
    \A p \in RglobTif(snap) :
        /\ \E i \in DOMAIN record : record[i][1] = p
        /\ XYtoWell[Join(Pre("XY", Match(img_type, Last(p))["XY"]))] \in DOMAIN wellMap

\* C12: when the planning loop of moveFiles comes to a matched image whose
\* well is not a key of the condition map, the call ends there with
\* WellNotFound; a call that ends so has moved no file and written no
\* record; and a call that goes on to write the record has skipped no image.
WellNotFoundAborts ==
    [][/\ AtUnmappedWell => (pc' = "idle" /\ result' = "WellNotFound" /\ fs' = fs)
       /\ (pc' = "idle" /\ op' = "move" /\ result' = "WellNotFound")
             => (NothingMoved(fs', snap') /\ recData' = recData)
       /\ pc' = "persist" => NoneSkipped']_vars

\* the first moveFiles on a tree has ended with WellNotFound
WellNotFoundRaised ==
    pc = "idle" /\ op = "move" /\ result = "WellNotFound" /\ snap = tree0

\* the well and the position a scanned shortcut stands for
SeenWell(i) == Last(fn_seen[i]).toks[2]
SeenPos(i) == NameStr(Last(Parent(fn_seen[i])))
\* the shortcuts scanned up to the i-th that name the well of the i-th
SameWellUpTo(i) == {j \in 1..i : SeenWell(j) = SeenWell(i)}

\* C13: after any number of scanned shortcuts, XYtoWell gives each scanned
\* position its well; XYtoWell_unique gives it the well unchanged when no
\* other scanned position has that well, and otherwise well(k), k counting
\* the positions of that well in the order the scan met them.
DuplicateWellLabels ==
    /\ DOMAIN fn_out.XYtoWell = {SeenPos(i) : i \in DOMAIN fn_seen}
    /\ DOMAIN fn_out.XYtoWell_unique = {SeenPos(i) : i \in DOMAIN fn_seen}
    /\ \A i \in DOMAIN fn_seen :
          /\ fn_out.XYtoWell[SeenPos(i)] = SeenWell(i)
          /\ fn_out.XYtoWell_unique[SeenPos(i)] =
                IF Cardinality({j \in DOMAIN fn_seen : SeenWell(j) = SeenWell(i)}) = 1
                THEN SeenWell(i)
                ELSE SeenWell(i) \o "(" \o ToString(Cardinality(SameWellUpTo(i))) \o ")"

\* three positions of one well have been scanned
ThreeOfOneWell ==
    /\ Len(fn_seen) = 3
    /\ \A i \in DOMAIN fn_seen : SeenWell(i) = SeenWell(1)
    /\ fn_out.XYtoWell_unique[SeenPos(3)] = SeenWell(1) \o "(3)"

\* C14: after any number of scanned shortcuts, in any order, no two
\* positions have the same label in XYtoWell_unique.
UniqueLabelsDistinct ==
    \A a, b \in DOMAIN fn_out.XYtoWell_unique :
        a # b => fn_out.XYtoWell_unique[a] # fn_out.XYtoWell_unique[b]

\* a well with two positions and a well with one have been scanned, the
\* single one between the two
TwoWellsInterleaved ==
    /\ Len(fn_seen) = 3
    /\ SeenWell(1) = SeenWell(3) /\ SeenWell(2) # SeenWell(1)
    /\ Cardinality({fn_out.XYtoWell_unique[p] : p \in DOMAIN fn_out.XYtoWell_unique}) = 3

\* C15: a revMoveFiles started while the original path of some recorded
\* move exists fails with DestExistsError, and has then moved no file,
\* removed no directory and left record.json in place.
RevPrevalidates ==
    (pc = "idle" /\ op = "rev" /\ collides)
        => (result = "DestExistsError" /\ ~mutated /\ Exists(fs, <<RecordJson>>))

\* no directory of the order comes after one of its ancestors
ChildrenFirst(order) ==
    \A i, j \in DOMAIN order :
        (i < j /\ order[i] # order[j]) => ~IsPrefix(order[i], order[j])

\* C16: every step of the removal loop of revMoveFiles removes the recorded
\* directory it is at, and the directories still to remove are ordered
\* children before parents.
NewDirsRemovedChildrenFirst ==
    [][(pc = "rev_rmdir" /\ todo # <<>>)
          => (ChildrenFirst(todo) /\ ~Exists(fs', Head(todo)))]_vars

\* C17: after a run of the command line, the exit status is 0 when the
\* call succeeded and is not 0 when it ended with an error of the taxonomy.
ExitStatusReports ==
    (pc = "idle" /\ op # "none")
        => /\ (result = "ok" => ExitStatus(op, result) = 0)
           /\ (result \in TaxonomyErrors => ExitStatus(op, result) # 0)

\* C18: a moveFiles on a folder with no *.tif file anywhere under it ends
\* with the error NoImagesFound, and the folder is as it was.
NoImagesReported ==
    (pc = "idle" /\ op = "move" /\ RglobTif(snap) = {})
        => (result = "NoImagesFound" /\ fs = snap)

\* the condition folder and the position folder of an image
CondXY(in) == <<N(<<in.well_info>>, ""), N(<<in.uniq_well_ID, in.well_info>>, "")>>

\* the folders the natural grouping adds below them: the stitch tile and the
\* Z field where the name has them, then the channel
NaturalTail(fl) ==
    (IF fl.stitch # "" THEN <<N(<<"stitch" \o fl.stitch>>, "")>> ELSE <<>>)
      \o (IF fl.Z # "" THEN <<N(<<"Z" \o fl.Z>>, "")>> ELSE <<>>)
      \o <<N(<<fl.CH>>, "")>>

\* getGroupbyPath has been applied to a natural grouping
NaturalApplied == fn_seen # <<>> /\ fn_seen[1].groupby = <<"natural">>

\* C19 as stated: under the natural grouping the destination directory of
\* an image is condition/uniqueLabel_condition, that of grouping [cond, XY].
NaturalIsCondXY == NaturalApplied => fn_out.dest = CondXY(fn_seen[1])

\* C19: under the natural grouping the destination directory of an image is
\* condition/uniqueLabel_condition followed by stitch<tile> if the image has
\* a stitch field, by its Z field if it has one, and by its channel field.
NaturalPath ==
    NaturalApplied
        => (fn_out.err = ""
            /\ fn_out.dest = CondXY(fn_seen[1]) \o NaturalTail(fn_seen[1].fields))

NaturalOnStitchedZ ==
    /\ NaturalApplied
    /\ fn_seen[1].fields.stitch = "00045" /\ fn_seen[1].fields.Z = "2"
    /\ fn_seen[1].uniq_well_ID = "A01(2)"
    /\ Len(fn_out.dest) = 5

\* the segment an option stands for: the condition, the unique label with
\* the condition, or the option's name followed by the value of its field
\* (the number of a T or Z field, the tile of a stitch field, the whole of
\* the channel field)
NamedSegment(group_name, in) ==
    IF group_name = "cond" THEN N(<<in.well_info>>, "")
    ELSE IF group_name = "XY" THEN N(<<in.uniq_well_ID, in.well_info>>, "")
    ELSE N(<<group_name \o in.fields[group_name]>>, "")

\* getGroupbyPath has been applied and has returned a path
PathReturned == fn_seen # <<>> /\ fn_out.err = ""

\* C20: for a grouping other than none and natural the destination has one
\* segment per option, in the order given: the condition for cond,
\* uniqueLabel_condition for XY, the option's name followed by the value of
\* its field for T, stitch, Z and CH ("T3", "stitch00045"); for the grouping
\* none the destination is the base path.
OneSegmentPerOption ==
    PathReturned =>
        LET in == fn_seen[1]
            gb == in.groupby
        IN  /\ gb[1] = "none" => fn_out.dest = <<>>
            /\ gb[1] \notin {"none", "natural"} =>
                   /\ Len(fn_out.dest) = Len(gb)
                   /\ \A i \in 1..Len(gb) : fn_out.dest[i] = NamedSegment(gb[i], in)

\* C21: every path of the persisted record, as the record spells it, is an
\* absolute path, whatever the form of the path argument.
RecordPathsAbsolute ==
    (recData # NoRecord)
        => \A p \in RecordPaths(recData) : IsAbsolute(Under(fn_in[1], p))

\* C22: in moveFiles no entry is in unmoved/ while the loop over the images
\* runs, and when the loop over the unmoved entries moves one, every image
\* of the record has left its original path.
ImagesBeforeUnmoved ==
    [][/\ (pc = "move_tif" /\ op = "move") => Children(fs, <<UnmovedName>>) = {}
       /\ (pc = "move_unmoved" /\ op = "move" /\ fs' # fs)
             => \A i \in DOMAIN record : ~Exists(fs, record[i][1])]_vars

\* the images are moved and a first unmoved entry is in unmoved/, others
\* are still to move
UnmovedUnderWay ==
    /\ pc = "move_unmoved" /\ op = "move"
    /\ record # <<>> /\ todo # <<>>
    /\ Children(fs, <<UnmovedName>>) # {}

\* revMoveFiles is about to move an image back
AtImageUndo ==
    /\ pc = "rev_move" /\ todo # <<>>
    /\ \E i \in DOMAIN recData.record : recData.record[i] = Head(todo)

\* C23: when revMoveFiles is about to move an image back, every unmoved
\* entry of the record is at its original path again, and the directory
\* the image came from exists.
UnmovedRestoredFirst ==
    AtImageUndo
        => /\ \A i \in DOMAIN recData.unmoved_list :
                  Exists(fs, recData.unmoved_list[i][1])
           /\ IsDir(fs, Parent(Head(todo)[1]))

\* an image that was inside a position folder is about to go back into it
ImageGoesBackIntoFolder ==
    /\ AtImageUndo
    /\ Len(Head(todo)[1]) = 2
    /\ ~Exists(snap, <<UnmovedName>>)
    /\ Children(fs, <<UnmovedName>>) = {}

\* the directories of a tree
Dirs(f) == {d \in DOMAIN f : f[d] = "dir"}

\* a list without repeats in which no directory comes before its parents
ParentsFirst(dirs) ==
    \A i, j \in DOMAIN dirs :
        i # j => (dirs[i] # dirs[j] /\ (IsPrefix(dirs[i], dirs[j]) => i < j))

\* C24: while moveFiles plans and when it writes the record, new_dirs holds
\* exactly the directories that were not in the folder when the call began
\* and are there now, each once and after its parents; each planning step
\* appends the directories it creates; the record takes the list as it is,
\* and the moves that follow create and remove no directory.
NewDirsAreTheCreated ==
    [][/\ (op = "move" /\ pc \in {"plan_tif", "persist"})
             => /\ {new_dirs[i] : i \in DOMAIN new_dirs} = Dirs(fs) \ DOMAIN snap
                /\ ParentsFirst(new_dirs)
       /\ (op = "move" /\ pc = "plan_tif" /\ pc' # "idle")
             => /\ SubSeq(new_dirs', 1, Len(new_dirs)) = new_dirs
                /\ {new_dirs'[i] : i \in (Len(new_dirs) + 1)..Len(new_dirs')}
                      = Dirs(fs') \ Dirs(fs)
       /\ pc = "persist" => recData'.new_dirs = new_dirs
       /\ (op = "move" /\ pc \in {"move_tif", "move_unmoved"})
             => Cardinality(Dirs(fs')) = Cardinality(Dirs(fs))]_vars

\* the record is about to be written with a directory and its parent, both
\* created by the call, in its list
NestedDirsPlanned ==
    /\ pc = "persist" /\ op = "move"
    /\ \E i, j \in DOMAIN new_dirs : i < j /\ Parent(new_dirs[j]) = new_dirs[i]

\* the original paths of the image moves planned
ImageSources == {record[i][1] : i \in DOMAIN record}

\* C25: when moveFiles writes the record, the sources of its unmoved list
\* are exactly the top-level entries of the folder that are neither planned
\* image files nor .DS_Store, each paired with unmoved/<its name>, and no
\* image file is in both lists.
UnmovedListExact ==
    (pc = "persist" /\ op = "move")
        => /\ {unmoved_list[i][1] : i \in DOMAIN unmoved_list}
                 = {e \in GlobAll(snap) : Last(e) # DSStoreName /\ e \notin ImageSources}
           /\ \A i \in DOMAIN unmoved_list :
                 unmoved_list[i][2] = <<UnmovedName, Last(unmoved_list[i][1])>>
           /\ \A i \in DOMAIN unmoved_list : unmoved_list[i][1] \notin ImageSources

\* the name with the position field replaced by label_condition and the
\* prefix, the other fields and the extension as they were
Relabelled(in) ==
    N(in.prefix
        \o (IF in.fields.T # "" THEN <<"T" \o in.fields.T>> ELSE <<>>)
        \o <<in.uniq_well_ID, in.well_info>>
        \o (IF in.fields.stitch # "" THEN <<in.fields.stitch>> ELSE <<>>)
        \o (IF in.fields.Z # "" THEN <<"Z" \o in.fields.Z>> ELSE <<>>)
        \o <<in.fields.CH>>, ".tif")

\* C26: the new name of a matched image is its name with the position field
\* (XY and its digits) replaced by uniqueLabel_condition, every other part
\* unchanged.
OnlyPositionReplaced ==
    (fn_seen # <<>> /\ fn_out.match # NoMatch)
        => fn_out.newFileName = Relabelled(fn_seen[1])

\* the rows and columns the specifications of the model reach
PlateRows == {"A", "B", "C"}
PlateCols == 1..3

\* the region specifier covers the well of row let and column n
TokenCovers(token, let, n) ==
    IF "b" \notin DOMAIN token
    THEN token.a.let = let /\ IntOf(token.a.digits) = n
    ELSE /\ \/ token.a.let = let \/ token.b.let = let
            \/ cti_mapping(token.a.let) < cti_mapping(let)
                  /\ cti_mapping(let) < cti_mapping(token.b.let)
            \/ cti_mapping(token.b.let) < cti_mapping(let)
                  /\ cti_mapping(let) < cti_mapping(token.a.let)
         /\ \/ IntOf(token.a.digits) <= n /\ n <= IntOf(token.b.digits)
            \/ IntOf(token.b.digits) <= n /\ n <= IntOf(token.a.digits)

\* the conditions of the items that cover the well, joined in the order of
\* the items, one per item
RECURSIVE ConditionsOf(_, _, _)
ConditionsOf(items, let, n) ==
    IF items = <<>> THEN ""
    ELSE LET before == ConditionsOf(SubSeq(items, 1, Len(items) - 1), let, n)
             item == items[Len(items)]
         IN  IF \E i \in DOMAIN item.val : TokenCovers(item.val[i], let, n)
             THEN (IF before = "" THEN item.key ELSE before \o Separator \o item.key)
             ELSE before

\* C27: after any number of items, well_mapping maps exactly the wells some
\* item covers, each to the conditions of the items that cover it, joined
\* by the separator in the order of the items; an item that names a well
\* more than once gives its condition once.
OverlapsMergedInOrder ==
    (fn_out.err = "")
        => /\ \A w \in DOMAIN fn_out.output_mapping :
                  \E let \in PlateRows, n \in PlateCols : w = WellName(let, n)
           /\ \A let \in PlateRows, n \in PlateCols :
                  IF ConditionsOf(fn_seen, let, n) = ""
                  THEN WellName(let, n) \notin DOMAIN fn_out.output_mapping
                  ELSE /\ WellName(let, n) \in DOMAIN fn_out.output_mapping
                       /\ fn_out.output_mapping[WellName(let, n)]
                             = ConditionsOf(fn_seen, let, n)

\* two items cover a well, the second names it twice
TwoItemsOverlap ==
    /\ Len(fn_seen) = 2 /\ fn_in = <<>> /\ fn_out.err = ""
    /\ fn_seen[1].key = "MEF" /\ fn_seen[2].key = "293"
    /\ fn_seen[1].val = <<Single(A01)>>
    /\ fn_seen[2].val = <<Single(A2), Single(A1), Single(A01)>>
    /\ fn_out.output_mapping["A01"] = "MEF.293"

\* every region specifier with its two corners exchanged
SwapCorners(items) ==
    [i \in DOMAIN items |->
        [items[i] EXCEPT !.val =
            [j \in DOMAIN items[i].val |->
                IF "b" \in DOMAIN items[i].val[j]
                THEN Dual(items[i].val[j].b, items[i].val[j].a)
                ELSE items[i].val[j]]]]

\* an item names the well A1, as A1 or as A01
NamesA1 ==
    \E i \in DOMAIN fn_seen : \E j \in DOMAIN fn_seen[i].val :
        fn_seen[i].val[j] \in {Single(A1), Single(A01)}

Supported(gb, fl) ==
    \A i \in DOMAIN gb :
        \/ gb[i] \in {"cond", "XY", "CH"}
        \/ gb[i] \in {"T", "stitch", "Z"} /\ fl[gb[i]] # ""

\* C29: a supported grouping passes the checks of moveFiles, and the
\* planner gives the image a destination.
SupportedAccepted ==
    (fn_seen # <<>> /\ Supported(fn_seen[1].groupby, fn_seen[1].fields))
        => fn_out.err = ""

\* C30: a revMoveFiles that follows a moveFiles which wrote its record and
\* failed with some of the moves done succeeds and leaves the tree as it
\* was before that moveFiles.
HalfMoveRecovered ==
    (pc = "idle" /\ op = "rev" /\ halfMoved)
        => (result = "ok" /\ Restored(fs, snap))

\* the pairs of a record: the unmoved list, then the image moves
PlanPairs(rev_data) == rev_data.unmoved_list \o rev_data.record

\* C31: in any record written by moveFiles, two different original paths,
\* of the unmoved list and the image list together, never have the same
\* destination path, whatever the grouping.
PlanInjective ==
    (recData # NoRecord)
        => \A i, j \in DOMAIN PlanPairs(recData) :
              PlanPairs(recData)[i][1] # PlanPairs(recData)[j][1]
                  => PlanPairs(recData)[i][2] # PlanPairs(recData)[j][2]
====
